---------------------------- MODULE Spec2Model ----------------------------
(***************************************************************************)
(* Server allocations of the Docker environment driver                     *)
(* (environment/allocations.go): Allocations.Bindings builds a nat.PortMap *)
(* from the mappings, Allocations.DockerBindings rewrites the 127.0.0.1    *)
(* entries of that map in place, Allocations.Exposed keeps its keys.       *)
(*                                                                         *)
(* Spec        runs the three methods on an Allocations value.             *)
(* SpecRewrite runs the rewrite loop of DockerBindings (and the key        *)
(*             collection of Exposed) on binding tables that do hold       *)
(*             127.0.0.1 entries.                                          *)
(* In both, another goroutine may replace the process-wide configuration   *)
(* between any two steps of the loop.                                      *)
(***************************************************************************)
EXTENDS Integers, Sequences, FiniteSets, TLC

VARIABLES
    alloc,        \* the receiver *Allocations
    config,       \* the process-wide configuration behind config.Get()
    table,        \* the map the rewrite loop starts from (a.Bindings() at line 85)
    pc,           \* "idle", "range", "inner", "returned", "panic"
    caller,       \* the method that was called: "DockerBindings" or "Exposed"
    iface,        \* the local iface of DockerBindings (line 83)
    out,          \* the local out of DockerBindings
    visited,      \* keys of out that the outer range has been through
    p,            \* the key of the outer range
    i,            \* the index of the inner range (1-based)
    arr,          \* the backing array shared by binds and out[p]
    ispnReads,    \* the values config.Get().Docker.Network.ISPN returned in this call
    bindingsRet,  \* the last two tables returned by Bindings, oldest first
    dockerRet,    \* <<the table DockerBindings returned>> once the call has returned
    exposedRet    \* <<the set Exposed returned>> once the call has returned

vars == <<alloc, config, table, pc, caller, iface, out, visited, p, i, arr,
          ispnReads, bindingsRet, dockerRet, exposedRet>>

---------------------------------------------------------------------------
(* Bounds of the model *)

\* ports in all the lists of one mappings table
MaxPorts == 2
\* bindings in all the lists of one binding table handed to the rewrite loop
MaxBinds == 3

IPs == {"0.0.0.0", "127.0.0.1"}
Ports == {-1, 0, 1, 65535, 65536}
Interfaces == {"", "10.0.0.5"}
ExtKeys == {"25565/tcp", "25565/udp"}
ExtHostIPs == {"127.0.0.1", "[::]"}
ExtHostPorts == {"25565", "25566"}

---------------------------------------------------------------------------
(* Go values *)

\* a nil or empty map
EmptyMap == [k \in {} |-> <<>>]

\* m[k] of a map of slices: the nil slice when k is not a key
Lookup(m, k) == IF k \in DOMAIN m THEN m[k] ELSE <<>>

\* m[k] = v
Put(m, k, v) == [x \in DOMAIN m \cup {k} |-> IF x = k THEN v ELSE m[x]]

BoundedSeq(S, n) == UNION {[1..k -> S] : k \in 0..n}

RECURSIVE SumLen(_, _)
SumLen(m, keys) ==
    IF keys = {} THEN 0
    ELSE LET k == CHOOSE x \in keys : TRUE
         IN  Len(m[k]) + SumLen(m, keys \ {k})

\* maps from a subset of keys to lists over vals, at most n list elements in all
BoundedMaps(keys, vals, n) ==
    {m \in UNION {[K -> BoundedSeq(vals, n)] : K \in SUBSET keys} :
        SumLen(m, DOMAIN m) <= n}

\* the orders in which a range over a map with these keys may visit them
Orders(keys) ==
    {o \in [1..Cardinality(keys) -> keys] : \A k \in keys : \E j \in DOMAIN o : o[j] = k}

Digit(d) ==
    CASE d = 0 -> "0" [] d = 1 -> "1" [] d = 2 -> "2" [] d = 3 -> "3" [] d = 4 -> "4"
      [] d = 5 -> "5" [] d = 6 -> "6" [] d = 7 -> "7" [] d = 8 -> "8" [] d = 9 -> "9"

\* strconv.Itoa, and %d of fmt.Sprintf
RECURSIVE Itoa(_)
Itoa(n) ==
    IF n < 0 THEN "-" \o Itoa(-n)
    ELSE IF n < 10 THEN Digit(n)
    ELSE Itoa(n \div 10) \o Digit(n % 10)

---------------------------------------------------------------------------
(* Allocations.Bindings *)

\* the body of "if port < 1 || port > 65535 { continue }" negated
ValidPortLax(port) == ~(port < 0 \/ port > 65535)
ValidPort(port) == ~(port < 1 \/ port > 65535)

\* the disabled IPv4 binding of lines 49-52
ipv4Binding(ip, port) == [HostIP |-> ip, HostPort |-> Itoa(port)]
ipv6Binding(ip, port) == [HostIP |-> "[::]", HostPort |-> Itoa(port)]

tcpPort(port) == Itoa(port) \o "/tcp"
udpPort(port) == Itoa(port) \o "/udp"

\* out[key] = binding in place of out[key] = append(out[key], binding)
AssignBinding(m, key, binding) == Put(m, key, <<binding>>)
AppendBinding(m, key, binding) == Put(m, key, Append(Lookup(m, key), binding))

\* one pass of the inner loop body, lines 43-70
BindPort(m, ip, port) ==
    IF ~ValidPort(port) THEN m
    ELSE AppendBinding(AppendBinding(m, tcpPort(port), ipv6Binding(ip, port)),
                       udpPort(port), ipv6Binding(ip, port))

RECURSIVE BindPorts(_, _, _)
BindPorts(m, ip, ports) ==
    IF ports = <<>> THEN m
    ELSE BindPorts(BindPort(m, ip, Head(ports)), ip, Tail(ports))

RECURSIVE BindKeys(_, _, _)
BindKeys(m, mappings, order) ==
    IF order = <<>> THEN m
    ELSE BindKeys(BindPorts(m, Head(order), mappings[Head(order)]), mappings, Tail(order))

\* Bindings, with the range over a.Mappings visiting the keys in this order
Bindings(a, order) == BindKeys(EmptyMap, a.Mappings, order)

---------------------------------------------------------------------------
(* The loop of Allocations.DockerBindings *)

Loopback == "127.0.0.1"

\* what "out[p] = append(out[p][:i], out[p][i+1:]...)" leaves in the backing
\* array: the elements after i, up to len(out[p]) = n, move one place down
\* and the last of them stays where it was
ShiftDown(a, n, idx) ==
    [j \in 1..Len(a) |-> IF j >= idx /\ j < n THEN a[j + 1] ELSE a[j]]

\* out[p][low:] panics when low > len(out[p]) = n
SliceOutOfRange(n, low) == low > n

\* out[p][idx] panics when idx >= len(out[p]) = n (idx counts from 0)
IndexOutOfRange(n, idx) == idx >= n

\* the replacement without the HostPort field
ReplacedNoPort(b, ifc) == [HostIP |-> ifc, HostPort |-> ""]
Replaced(b, ifc) == [HostIP |-> ifc, HostPort |-> b.HostPort]

\* deleting the key when its last binding goes, in place of out[p] = s
StoreOrDrop(m, k, s) ==
    IF s = <<>> THEN [x \in DOMAIN m \ {k} |-> m[x]] ELSE Put(m, k, s)
Store(m, k, s) == Put(m, k, s)

---------------------------------------------------------------------------
(* States *)

Configs == [Interface : Interfaces, ISPN : BOOLEAN]

Allocs ==
    {[ForceOutgoingIP |-> FALSE,
      DefaultMapping |-> [Ip |-> "0.0.0.0", Port |-> 25565],
      Mappings |-> m] : m \in BoundedMaps(IPs, Ports, MaxPorts)}

EmptyAlloc ==
    [ForceOutgoingIP |-> FALSE,
     DefaultMapping |-> [Ip |-> "0.0.0.0", Port |-> 25565],
     Mappings |-> EmptyMap]

ExtBindings == [HostIP : ExtHostIPs, HostPort : ExtHostPorts]

ExtTables == BoundedMaps(ExtKeys, ExtBindings, MaxBinds)

InitLocals ==
    /\ pc = "idle"
    /\ caller = "DockerBindings"
    /\ iface = ""
    /\ out = EmptyMap
    /\ visited = {}
    /\ p = ""
    /\ i = 1
    /\ arr = <<>>
    /\ ispnReads = {}
    /\ bindingsRet = <<>>
    /\ dockerRet = <<>>
    /\ exposedRet = <<>>

Init ==
    /\ alloc \in Allocs
    /\ config \in Configs
    /\ table = EmptyMap
    /\ InitLocals

InitRewrite ==
    /\ alloc = EmptyAlloc
    /\ config \in Configs
    /\ table \in ExtTables
    /\ InitLocals

---------------------------------------------------------------------------
(* Actions *)

Callable == pc \in {"idle", "returned"}

\* a.Bindings() called by itself
CallBindings ==
    /\ Callable
    /\ \E order \in Orders(DOMAIN alloc.Mappings) :
          bindingsRet' = IF bindingsRet = <<>> THEN <<Bindings(alloc, order)>>
                         ELSE <<bindingsRet[Len(bindingsRet)], Bindings(alloc, order)>>
    /\ UNCHANGED <<alloc, config, table, pc, caller, iface, out, visited, p, i, arr,
                   ispnReads, dockerRet, exposedRet>>

\* lines 83-85, and the start of the range over out
Enter(c, t) ==
    /\ Callable
    /\ caller' = c
    /\ iface' = config.Interface
    /\ table' = t
    /\ out' = t
    /\ visited' = {}
    /\ p' = ""
    /\ i' = 1
    /\ arr' = <<>>
    /\ ispnReads' = {}
    /\ pc' = "range"
    /\ dockerRet' = <<>>
    /\ exposedRet' = <<>>
    /\ UNCHANGED <<alloc, config, bindingsRet>>

CallDockerBindings ==
    \E order \in Orders(DOMAIN alloc.Mappings) : Enter("DockerBindings", Bindings(alloc, order))

CallExposed ==
    \E order \in Orders(DOMAIN alloc.Mappings) : Enter("Exposed", Bindings(alloc, order))

\* the loop of DockerBindings on a table that was not built by Bindings
CallRewrite == Enter("DockerBindings", table)

CallExposedRewrite == Enter("Exposed", table)

\* line 89: the range over out moves to a key it has not visited, and line 90
\* evaluates binds once
RangeKey ==
    /\ pc = "range"
    /\ \E k \in DOMAIN out \ visited :
          /\ p' = k
          /\ arr' = out[k]
          /\ i' = 1
          /\ IF out[k] = <<>>
                THEN visited' = visited \cup {k} /\ pc' = "range"
                ELSE visited' = visited /\ pc' = "inner"
    /\ UNCHANGED <<alloc, config, table, caller, iface, out, ispnReads,
                   bindingsRet, dockerRet, exposedRet>>

\* the end of one pass of the inner loop
Advance ==
    /\ i' = i + 1
    /\ IF i + 1 > Len(arr)
          THEN visited' = visited \cup {p} /\ pc' = "range"
          ELSE visited' = visited /\ pc' = "inner"

\* lines 90-104: one pass of the inner loop, on alloc = binds[i]; the i of
\* the code counts from 0 and is i - 1 here
InnerStep ==
    /\ pc = "inner"
    /\ i <= Len(arr)
    /\ LET b == arr[i]
           n == Len(Lookup(out, p))
       IN  IF b.HostIP # Loopback
              THEN /\ Advance
                   /\ UNCHANGED <<out, arr, ispnReads>>
           ELSE IF config.ISPN
              THEN /\ ispnReads' = ispnReads \cup {TRUE}
                   /\ IF SliceOutOfRange(n, (i - 1) + 1)
                         THEN /\ pc' = "panic"
                              /\ UNCHANGED <<out, arr, i, visited>>
                         ELSE /\ arr' = ShiftDown(arr, n, i)
                              /\ out' = Store(out, p, SubSeq(arr', 1, n - 1))
                              /\ Advance
              ELSE /\ ispnReads' = ispnReads \cup {FALSE}
                   /\ IF IndexOutOfRange(n, i - 1)
                         THEN /\ pc' = "panic"
                              /\ UNCHANGED <<out, arr, i, visited>>
                         ELSE /\ arr' = [arr EXCEPT ![i] = Replaced(b, iface)]
                              /\ out' = Store(out, p, SubSeq(arr', 1, n))
                              /\ Advance
    /\ UNCHANGED <<alloc, config, table, caller, iface, p,
                   bindingsRet, dockerRet, exposedRet>>

\* line 107, and for Exposed lines 119-123
Return ==
    /\ pc = "range"
    /\ DOMAIN out \subseteq visited
    /\ pc' = "returned"
    /\ dockerRet' = <<out>>
    /\ exposedRet' = IF caller = "Exposed" THEN <<DOMAIN out>> ELSE <<>>
    /\ out' = EmptyMap
    /\ visited' = {}
    /\ p' = ""
    /\ i' = 1
    /\ arr' = <<>>
    /\ UNCHANGED <<alloc, config, table, caller, iface, ispnReads, bindingsRet>>

\* another goroutine replaces the configuration
SetConfig ==
    /\ pc # "panic"
    /\ \E c \in Configs \ {config} : config' = c
    /\ UNCHANGED <<alloc, table, pc, caller, iface, out, visited, p, i, arr,
                   ispnReads, bindingsRet, dockerRet, exposedRet>>

Next ==
    \/ CallBindings
    \/ CallDockerBindings
    \/ CallExposed
    \/ RangeKey
    \/ InnerStep
    \/ Return
    \/ SetConfig

NextRewrite ==
    \/ CallRewrite
    \/ CallExposedRewrite
    \/ RangeKey
    \/ InnerStep
    \/ Return
    \/ SetConfig

Spec == Init /\ [][Next]_vars

SpecRewrite == InitRewrite /\ [][NextRewrite]_vars

---------------------------------------------------------------------------
(* What the properties are stated with *)

Range(s) == {s[j] : j \in DOMAIN s}

\* the ports listed anywhere in the mappings
PortsIn(a) == UNION {Range(a.Mappings[k]) : k \in DOMAIN a.Mappings}

InRange(q) == q >= 1 /\ q <= 65535

\* the decimal numerals of the ports of the model, written out
Decimal(q) ==
    CASE q = -1 -> "-1" [] q = 0 -> "0" [] q = 1 -> "1"
      [] q = 65535 -> "65535" [] q = 65536 -> "65536"

ExpectedKeys(a) ==
    UNION {{Decimal(q) \o "/tcp", Decimal(q) \o "/udp"} : q \in {r \in PortsIn(a) : InRange(r)}}

RECURSIVE Count(_, _)
Count(s, q) ==
    IF s = <<>> THEN 0 ELSE (IF Head(s) = q THEN 1 ELSE 0) + Count(Tail(s), q)

RECURSIVE OccurrencesIn(_, _, _)
OccurrencesIn(m, keys, q) ==
    IF keys = {} THEN 0
    ELSE LET k == CHOOSE x \in keys : TRUE
         IN  Count(m[k], q) + OccurrencesIn(m, keys \ {k}, q)

\* how often port q is listed in the mappings
Occurrences(a, q) == OccurrencesIn(a.Mappings, DOMAIN a.Mappings, q)

RECURSIVE Without(_, _)
Without(s, ip) ==
    IF s = <<>> THEN <<>>
    ELSE IF Head(s).HostIP = ip THEN Without(Tail(s), ip)
    ELSE <<Head(s)>> \o Without(Tail(s), ip)

RECURSIVE InRangeOnly(_)
InRangeOnly(s) ==
    IF s = <<>> THEN <<>>
    ELSE IF InRange(Head(s)) THEN <<Head(s)>> \o InRangeOnly(Tail(s))
    ELSE InRangeOnly(Tail(s))

\* the allocation with the out-of-range ports taken out of every list
InRangeAlloc(a) ==
    [a EXCEPT !.Mappings = [k \in DOMAIN a.Mappings |-> InRangeOnly(a.Mappings[k])]]

OtherIPs == IPs \cup {"10.1.1.1"}

\* the allocations that differ from a only in the IP keys of the mappings
Rekeyed(a) ==
    {[a EXCEPT !.Mappings =
         [k2 \in {f[k] : k \in DOMAIN a.Mappings} |->
             a.Mappings[CHOOSE k \in DOMAIN a.Mappings : f[k] = k2]]] :
       f \in {g \in [DOMAIN a.Mappings -> OtherIPs] :
                \A x, y \in DOMAIN a.Mappings : g[x] = g[y] => x = y}}

LastBindings == bindingsRet[Len(bindingsRet)]

---------------------------------------------------------------------------
(* Properties *)

C3_LoopbackReplaced ==
    /\ (pc = "panic" => TRUE \in ispnReads)
    /\ (pc = "returned" /\ ispnReads \subseteq {FALSE}) =>
          /\ DOMAIN dockerRet[1] = DOMAIN table
          /\ \A k \in DOMAIN table :
                /\ Len(dockerRet[1][k]) = Len(table[k])
                /\ \A j \in DOMAIN table[k] :
                      dockerRet[1][k][j] =
                          IF table[k][j].HostIP = "127.0.0.1"
                             THEN [HostIP |-> iface, HostPort |-> table[k][j].HostPort]
                             ELSE table[k][j]

C3_Witness ==
    /\ pc = "returned"
    /\ ispnReads = {FALSE}
    /\ iface = ""
    /\ \E k \in DOMAIN table :
          /\ Len(table[k]) = 3
          /\ table[k][1].HostIP = "127.0.0.1"
          /\ table[k][2].HostIP = "127.0.0.1"
          /\ table[k][3].HostIP = "[::]"
          /\ table[k][1].HostPort # table[k][2].HostPort

\* C4: every port from 1 to 65535 listed in the mappings has the keys "p/tcp"
\* and "p/udp" in the table Bindings returns, every binding under them is
\* {"[::]", decimal p} whatever IP key lists the port, and an allocation that
\* differs only in its IP keys gives the same table.
C4_WildcardBindings ==
    bindingsRet # <<>> =>
        /\ \A q \in PortsIn(alloc) : InRange(q) =>
              \A key \in {Decimal(q) \o "/tcp", Decimal(q) \o "/udp"} :
                  /\ key \in DOMAIN LastBindings
                  /\ LastBindings[key] # <<>>
                  /\ \A j \in DOMAIN LastBindings[key] :
                        LastBindings[key][j] = [HostIP |-> "[::]", HostPort |-> Decimal(q)]
        /\ \A a2 \in Rekeyed(alloc) : \A order \in Orders(DOMAIN a2.Mappings) :
              Bindings(a2, order) = LastBindings

C4_Witness ==
    /\ bindingsRet # <<>>
    /\ DOMAIN alloc.Mappings = IPs
    /\ alloc.Mappings["127.0.0.1"] = <<65535>>
    /\ alloc.Mappings["0.0.0.0"] = <<1>>

\* C5: the keys of the tables of Bindings and DockerBindings and the set of
\* Exposed are "p/tcp" and "p/udp" for exactly the listed ports p from 1 to
\* 65535, and the table is the one the allocation gives with the ports
\* outside that range taken out of its lists.
C5_InvalidPortsSkipped ==
    /\ bindingsRet # <<>> =>
          /\ DOMAIN LastBindings = ExpectedKeys(alloc)
          /\ \A order \in Orders(DOMAIN alloc.Mappings) :
                Bindings(InRangeAlloc(alloc), order) = LastBindings
    /\ dockerRet # <<>> => DOMAIN dockerRet[1] = ExpectedKeys(alloc)
    /\ exposedRet # <<>> => exposedRet[1] = ExpectedKeys(alloc)

C5_Witness ==
    /\ bindingsRet # <<>>
    /\ exposedRet # <<>>
    /\ \E k \in DOMAIN alloc.Mappings :
          \/ alloc.Mappings[k] = <<0, 65535>>
          \/ alloc.Mappings[k] = <<1, 65536>>

\* C6: two calls of Bindings on the same allocation return the same table,
\* whatever the order of the range over the mappings, and no method changes
\* the allocation.
C6_Deterministic ==
    /\ [](Len(bindingsRet) = 2 => bindingsRet[1] = bindingsRet[2])
    /\ [][alloc' = alloc]_vars

C6_Witness ==
    /\ Len(bindingsRet) = 2
    /\ exposedRet # <<>>
    /\ DOMAIN alloc.Mappings = IPs
    /\ alloc.Mappings["127.0.0.1"] = <<1>>
    /\ alloc.Mappings["0.0.0.0"] = <<1>>

\* C7: the set Exposed returns is the key set of the table DockerBindings
\* returns, which is the key set the loop started from: a key with several
\* bindings is there once and a key whose bindings were all removed is kept,
\* with an empty list.
C7_ExposedIsKeySet ==
    pc = "returned" =>
        /\ DOMAIN dockerRet[1] = DOMAIN table
        /\ caller = "Exposed" => exposedRet = <<DOMAIN dockerRet[1]>>

C7_Witness ==
    /\ pc = "returned"
    /\ caller = "Exposed"
    /\ \E k1, k2 \in DOMAIN table :
          /\ table[k1] # <<>>
          /\ dockerRet[1][k1] = <<>>
          /\ Len(dockerRet[1][k2]) = 2
          /\ exposedRet[1] = {k1, k2}

\* C8: from an allocation, DockerBindings never panics and returns the table
\* Bindings gave it, whatever the configuration; every binding of it has HostIP
\* "[::]"; Exposed returns "p/tcp" and "p/udp" for the listed ports from 1 to
\* 65535; with no mappings both are empty.
C8_RewriteIsNoOp ==
    /\ pc # "panic"
    /\ pc = "returned" =>
          /\ dockerRet[1] = table
          /\ \A k \in DOMAIN dockerRet[1] : \A j \in DOMAIN dockerRet[1][k] :
                dockerRet[1][k][j].HostIP = "[::]"
          /\ caller = "Exposed" => exposedRet = <<ExpectedKeys(alloc)>>
          /\ PortsIn(alloc) = {} => dockerRet[1] = EmptyMap
          /\ (PortsIn(alloc) = {} /\ caller = "Exposed") => exposedRet[1] = {}

C8_Witness ==
    /\ pc = "returned"
    /\ caller = "Exposed"
    /\ config.ISPN
    /\ "127.0.0.1" \in DOMAIN alloc.Mappings
    /\ alloc.Mappings["127.0.0.1"] = <<1, 65535>>

\* C9 as stated: every list of the table Bindings returns has exactly one entry.
C9_OneBindingPerKey ==
    bindingsRet # <<>> => \A k \in DOMAIN LastBindings : Len(LastBindings[k]) = 1

\* C9: the lists under "p/tcp" and "p/udp" of the table Bindings returns have
\* one entry for each time port p is listed in the mappings, so exactly one
\* entry when p is listed once.
C9_OneBindingPerListing ==
    bindingsRet # <<>> =>
        \A q \in PortsIn(alloc) : InRange(q) =>
            /\ Len(LastBindings[Decimal(q) \o "/tcp"]) = Occurrences(alloc, q)
            /\ Len(LastBindings[Decimal(q) \o "/udp"]) = Occurrences(alloc, q)

C9_Witness ==
    /\ bindingsRet # <<>>
    /\ \E k \in DOMAIN alloc.Mappings : alloc.Mappings[k] = <<65535, 65535>>
    /\ Len(LastBindings["65535/tcp"]) = 2

=============================================================================
